---- MODULE Spec2Model ----
(***************************************************************************)
(* A model of sub2srt.py: the conversion of "Sub" subtitle files to SRT.   *)
(* Text is a sequence of one-character strings, so that every split,       *)
(* strip, pad and join of the program is computed character by character.  *)
(* A path is a sequence of names, a name is a sequence of characters.      *)
(***************************************************************************)
EXTENDS Integers, Sequences, FiniteSets, TLC

(***************************************************************************)
(* Bounds of the model                                                     *)
(***************************************************************************)
MaxTokLen == 5      \* longest arbitrary timestamp token handed to format_time_str
MaxFrac == 4        \* longest fractional part F of a well-formed token
MaxSegs == 3        \* most blank-line-separated segments of a generated file
MaxRuns == 2        \* invocations of the program on the same filesystem

(***************************************************************************)
(* Program constants                                                       *)
(***************************************************************************)
MsWidth == 3        \* ms[:3].ljust(3, "0")
PadZeros == 7       \* ".0000000"
PreviewLen == 50    \* block[:50]

(***************************************************************************)
(* str helpers, as Python computes them                                    *)
(***************************************************************************)
NL == "\n"

\* the characters str.strip() and the regex class \s treat as white space
Whitespace == {" ", NL, "\t"}

Min(a, b) == IF a < b THEN a ELSE b

\* s[:n]
Take(s, n) == SubSeq(s, 1, Min(n, Len(s)))

\* s[n:] (0-based n)
Drop(s, n) == SubSeq(s, n + 1, Len(s))

\* c in s
Contains(s, c) == \E i \in 1..Len(s) : s[i] = c

\* s.find(c) + 1, and 0 when c is not in s
IndexOf(s, c) ==
    IF Contains(s, c) THEN CHOOSE i \in 1..Len(s) : s[i] = c /\ \A j \in 1..(i-1) : s[j] # c
    ELSE 0

\* s.rfind(c) + 1, and 0 when c is not in s
LastIndexOf(s, c) ==
    IF Contains(s, c) THEN CHOOSE i \in 1..Len(s) : s[i] = c /\ \A j \in (i+1)..Len(s) : s[j] # c
    ELSE 0

\* s.split(c): always at least one part
RECURSIVE Split(_, _)
Split(s, c) ==
    LET i == IndexOf(s, c)
    IN IF i = 0 THEN <<s>>
       ELSE <<SubSeq(s, 1, i - 1)>> \o Split(Drop(s, i), c)

\* s.split(c, 1): at most two parts
SplitOnce(s, c) ==
    LET i == IndexOf(s, c)
    IN IF i = 0 THEN <<s>>
       ELSE <<SubSeq(s, 1, i - 1), Drop(s, i)>>

\* s.lstrip()
RECURSIVE LStrip(_)
LStrip(s) ==
    IF s # <<>> /\ s[1] \in Whitespace THEN LStrip(Tail(s)) ELSE s

\* s.rstrip()
RECURSIVE RStrip(_)
RStrip(s) ==
    IF s # <<>> /\ s[Len(s)] \in Whitespace THEN RStrip(SubSeq(s, 1, Len(s) - 1)) ELSE s

\* s.strip()
Strip(s) == RStrip(LStrip(s))

\* c * n
RECURSIVE Repeat(_, _)
Repeat(c, n) == IF n <= 0 THEN <<>> ELSE <<c>> \o Repeat(c, n - 1)

\* s.ljust(n, c)
Ljust(s, n, c) == s \o Repeat(c, n - Len(s))

\* sep.join(parts)
RECURSIVE Join(_, _)
Join(parts, sep) ==
    IF parts = <<>> THEN <<>>
    ELSE IF Len(parts) = 1 THEN parts[1]
    ELSE parts[1] \o sep \o Join(Tail(parts), sep)

\* str(n) for n >= 0
DigitChar(d) == <<"0", "1", "2", "3", "4", "5", "6", "7", "8", "9">>[d + 1]

RECURSIVE IntToStr(_)
IntToStr(n) ==
    IF n < 10 THEN <<DigitChar(n)>> ELSE IntToStr(n \div 10) \o <<DigitChar(n % 10)>>

\* the value a call returns, or the exception it raises
Ok(v) == [ok |-> TRUE, val |-> v]
Raise(e) == [ok |-> FALSE, val |-> <<e>>]

(***************************************************************************)
(* format_time_str                                                         *)
(***************************************************************************)
\* AppendFraction with the completion of lines 13-14 left out
AppendFraction_Never(time_str) == time_str

\* lines 13-14: a token without "." gets ".0000000"
AppendFraction(time_str) ==
    IF ~Contains(time_str, ".") THEN time_str \o <<".">> \o Repeat("0", PadZeros)
    ELSE time_str

\* Ms3 without the slice: ms.ljust(3, "0")
Ms3_NoCut(ms) == Ljust(ms, MsWidth, "0")

\* line 21: ms[:3].ljust(3, "0")
Ms3(ms) == Ljust(Take(ms, MsWidth), MsWidth, "0")

\* lines 17-18: the two unpackings raise ValueError unless the split gives
\* exactly three, resp. exactly two, parts
format_time_str(time_str) ==
    LET t == AppendFraction(time_str)
        hms == Split(t, ":")
    IN IF Len(hms) # 3 THEN Raise("ValueError")
       ELSE LET sm == Split(hms[3], ".")
            IN IF Len(sm) # 2 THEN Raise("ValueError")
               ELSE Ok(hms[1] \o <<":">> \o hms[2] \o <<":">> \o sm[1] \o <<",">> \o Ms3(sm[2]))

(***************************************************************************)
(* convert_single_sub_to_srt: the text of one file                         *)
(***************************************************************************)
\* the largest e >= p with s[p+1..e] all white space: how far a greedy \s*
\* that starts after position p can reach
RECURSIVE SpaceRunEnd(_, _)
SpaceRunEnd(s, p) ==
    IF p < Len(s) /\ s[p + 1] \in Whitespace THEN SpaceRunEnd(s, p + 1) ELSE p

\* the end of the match of \n\s*\n that starts at p, or 0: \s* is greedy and
\* backtracks to the last newline of the white-space run
MatchEnd(s, p) ==
    IF s[p] # NL THEN 0
    ELSE LET e == SpaceRunEnd(s, p)
             ends == {q \in (p + 1)..e : s[q] = NL}
         IN IF ends = {} THEN 0 ELSE CHOOSE q \in ends : \A r \in ends : r <= q

\* the start of the leftmost match of \n\s*\n in s, or 0
FirstMatch(s) ==
    LET starts == {p \in 1..Len(s) : MatchEnd(s, p) # 0}
    IN IF starts = {} THEN 0 ELSE CHOOSE p \in starts : \A r \in starts : p <= r

\* re.split(r"\n\s*\n", content)
RECURSIVE ReSplit(_)
ReSplit(content) ==
    LET p == FirstMatch(content)
    IN IF p = 0 THEN <<content>>
       ELSE <<SubSeq(content, 1, p - 1)>> \o ReSplit(Drop(content, MatchEnd(content, p)))

\* [x for x in seq if x]
RECURSIVE NonEmpty(_)
NonEmpty(seq) ==
    IF seq = <<>> THEN <<>>
    ELSE IF seq[1] = <<>> THEN NonEmpty(Tail(seq))
    ELSE <<seq[1]>> \o NonEmpty(Tail(seq))

\* line 52: [block.strip() for block in re.split(...) if block.strip()]
SubtitleBlocks(content) ==
    LET raw == ReSplit(content)
    IN NonEmpty([i \in 1..Len(raw) |-> Strip(raw[i])])

\* line 59: the warning printed for a block without a newline
Warning(idx, block) == [kind |-> "warning", idx |-> idx, text |-> Take(block, PreviewLen)]

\* SrtBlock with idx counted from 0, as enumerate(subtitle_blocks) would
SrtBlock_FromZero(idx, start_srt, end_srt, text_lines) ==
    IntToStr(idx - 1) \o <<NL>> \o start_srt \o <<" ", "-", "-", ">", " ">> \o end_srt \o <<NL>>
        \o Strip(text_lines) \o <<NL>>

\* lines 71-75: one entry of the output; idx counts from 1 (enumerate(..., 1))
SrtBlock(idx, start_srt, end_srt, text_lines) ==
    IntToStr(idx) \o <<NL>> \o start_srt \o <<" ", "-", "-", ">", " ">> \o end_srt \o <<NL>>
        \o Strip(text_lines) \o <<NL>>

\* line 64: [t.strip() for t in time_line.split(",")]
TimeTokens(time_line) ==
    LET t == Split(time_line, ",")
    IN [i \in 1..Len(t) |-> Strip(t[i])]

\* SkipBlock without the test of line 58: the unpacking of line 62 raises
SkipBlock_Raise(st, idx, block) == [st EXCEPT !.ok = FALSE, !.err = "ValueError"]

\* lines 58-60: what the loop does with a block that has no second line
SkipBlock(st, idx, block) == [st EXCEPT !.warnings = @ \o <<Warning(idx, block)>>]

\* lines 55-76: one iteration of the loop over the blocks; st.ok is FALSE
\* once an iteration has raised, and the later blocks are then not looked at
ConvertBlock(st, idx, block) ==
    LET lines == SplitOnce(block, NL)
    IN IF ~st.ok THEN st
       ELSE IF Len(lines) < 2 THEN SkipBlock(st, idx, block)
       ELSE LET tokens == TimeTokens(lines[1])
            IN IF Len(tokens) # 2 THEN [st EXCEPT !.ok = FALSE, !.err = "ValueError"]
               ELSE LET start_srt == format_time_str(tokens[1])
                        end_srt == format_time_str(tokens[2])
                    IN IF ~start_srt.ok \/ ~end_srt.ok
                       THEN [st EXCEPT !.ok = FALSE, !.err = "ValueError"]
                       ELSE [st EXCEPT !.srt_content = @ \o
                               <<SrtBlock(idx, start_srt.val, end_srt.val, lines[2])>>]

RECURSIVE ConvertBlocks(_, _, _)
ConvertBlocks(st, blocks, idx) ==
    IF idx > Len(blocks) THEN st
    ELSE ConvertBlocks(ConvertBlock(st, idx, blocks[idx]), blocks, idx + 1)

\* lines 52-76: the entries, the warnings printed, and whether the loop raised
ParseContent(content) ==
    ConvertBlocks([ok |-> TRUE, err |-> "", srt_content |-> <<>>, warnings |-> <<>>],
                  SubtitleBlocks(content), 1)

\* line 80: "\n".join(srt_content)
SrtText(srt_content) == Join(srt_content, <<NL>>)

(***************************************************************************)
(* Paths (pathlib) and the filesystem                                      *)
(***************************************************************************)
UpperLetters == <<"A", "B", "C", "D", "E", "F", "G", "H", "I", "J", "K", "L", "M",
                  "N", "O", "P", "Q", "R", "S", "T", "U", "V", "W", "X", "Y", "Z">>
LowerLetters == <<"a", "b", "c", "d", "e", "f", "g", "h", "i", "j", "k", "l", "m",
                  "n", "o", "p", "q", "r", "s", "t", "u", "v", "w", "x", "y", "z">>

\* s.lower()
LowerChar(c) ==
    IF \E i \in 1..Len(UpperLetters) : UpperLetters[i] = c
    THEN LowerLetters[CHOOSE i \in 1..Len(UpperLetters) : UpperLetters[i] = c]
    ELSE c

Lower(s) == [i \in 1..Len(s) |-> LowerChar(s[i])]

\* Path.name, Path.parent
Name(path) == path[Len(path)]
Parent(path) == SubSeq(path, 1, Len(path) - 1)

\* Path.suffix: from the last "." of the name, unless the name starts or ends with it
Suffix(path) ==
    LET name == Name(path)
        k == LastIndexOf(name, ".")
    IN IF 1 < k /\ k < Len(name) THEN SubSeq(name, k, Len(name)) ELSE <<>>

\* Path.stem: the name without its suffix
Stem(path) ==
    LET name == Name(path)
        k == LastIndexOf(name, ".")
    IN IF 1 < k /\ k < Len(name) THEN SubSeq(name, 1, k - 1) ELSE name

DotSub == <<".", "s", "u", "b">>
DotSrt == <<".", "s", "r", "t">>

\* a directory, or a file with the bytes it holds: text is what the bytes decode
\* to under enc, and "neither" are bytes that are neither valid UTF-8 nor valid GBK
DirNode == [kind |-> "dir", enc |-> "", text |-> <<>>]
FileNode(enc, text) == [kind |-> "file", enc |-> enc, text |-> text]

\* Path.is_file(), Path.is_dir()
is_file(fs, path) == path \in DOMAIN fs /\ fs[path].kind = "file"
is_dir(fs, path) == path \in DOMAIN fs /\ fs[path].kind = "dir"

\* fs with path holding node
Put(fs, path, node) ==
    [q \in (DOMAIN fs) \cup {path} |-> IF q = path THEN node ELSE fs[q]]

\* os.makedirs(path, exist_ok=True): every missing directory of the path is made;
\* raises when the path or one of its ancestors is a regular file
Ancestors(path) == {SubSeq(path, 1, k) : k \in 1..Len(path)}

makedirs(fs, path) ==
    IF \E a \in Ancestors(path) : is_file(fs, a) THEN [ok |-> FALSE, fs |-> fs]
    ELSE [ok |-> TRUE,
          fs |-> [q \in (DOMAIN fs) \cup Ancestors(path) |->
                    IF q \in DOMAIN fs THEN fs[q] ELSE DirNode]]

\* lines 44-49: open(..., encoding="utf-8").read(), and on UnicodeDecodeError the
\* same with encoding="gbk"
ReadText(fs, path) ==
    IF path \notin DOMAIN fs THEN Raise("FileNotFoundError")
    ELSE IF fs[path].kind = "dir" THEN Raise("IsADirectoryError")
    ELSE IF fs[path].enc = "utf-8" THEN Ok(fs[path].text)
    ELSE IF fs[path].enc = "gbk" THEN Ok(fs[path].text)
    ELSE Raise("UnicodeDecodeError")

\* SrtPath with the name of the input's directory kept in the output name
SrtPath_KeepParent(output_dir, sub_path) ==
    IF output_dir = <<>> THEN Parent(sub_path) \o <<Stem(sub_path) \o DotSrt>>
    ELSE output_dir \o <<Name(Parent(sub_path)) \o <<"_">> \o Stem(sub_path) \o DotSrt>>

\* lines 33-40: the output path, from the output directory and the stem alone
SrtPath(output_dir, sub_path) ==
    (IF output_dir = <<>> THEN Parent(sub_path) ELSE output_dir) \o <<Stem(sub_path) \o DotSrt>>

\* WriteFile with the file opened in mode "a"
WriteFile_Append(fs, path, text, full) ==
    IF is_dir(fs, path) THEN [ok |-> FALSE, err |-> "IsADirectoryError", fs |-> fs]
    ELSE IF ~(Parent(path) = <<>> \/ is_dir(fs, Parent(path)))
    THEN [ok |-> FALSE, err |-> "FileNotFoundError", fs |-> fs]
    ELSE IF full THEN [ok |-> FALSE, err |-> "OSError", fs |-> fs]
    ELSE [ok |-> TRUE, err |-> "",
          fs |-> Put(fs, path, FileNode("utf-8",
                     (IF is_file(fs, path) THEN fs[path].text ELSE <<>>) \o text))]

\* lines 79-80: open(srt_file_path, "w") truncates or creates the file, f.write and
\* the close at the end of the with block put the text in it. The text of a file
\* is below the buffer size, so a device without space fails the flush at close
\* and leaves the file empty.
WriteFile(fs, path, text, full) ==
    IF is_dir(fs, path) THEN [ok |-> FALSE, err |-> "IsADirectoryError", fs |-> fs]
    ELSE IF ~(Parent(path) = <<>> \/ is_dir(fs, Parent(path)))
    THEN [ok |-> FALSE, err |-> "FileNotFoundError", fs |-> fs]
    ELSE IF full THEN [ok |-> FALSE, err |-> "OSError", fs |-> Put(fs, path, FileNode("utf-8", <<>>))]
    ELSE [ok |-> TRUE, err |-> "", fs |-> Put(fs, path, FileNode("utf-8", text))]

\* IsSubFile without the test of the suffix
IsSubFile_AnySuffix(fs, path) == is_file(fs, path)

\* line 95: input_path.is_file() and input_path.suffix.lower() == ".sub"
IsSubFile(fs, path) == is_file(fs, path) /\ Lower(Suffix(path)) = DotSub

\* the pattern *.sub of line 101, matched against a name with the case kept
MatchesSub(name) ==
    Len(name) >= Len(DotSub) /\ SubSeq(name, Len(name) - Len(DotSub) + 1, Len(name)) = DotSub

\* path lies under dir, at any depth
IsUnder(path, dir) == Len(path) > Len(dir) /\ SubSeq(path, 1, Len(dir)) = dir

\* line 101: list(input_path.glob("**/*.sub")): the files and directories under
\* input_path whose name matches, in the order the directory scan yields them
Glob(fs, dir, order) ==
    SelectSeq(order, LAMBDA q : q \in DOMAIN fs /\ IsUnder(q, dir) /\ MatchesSub(Name(q)))

\* a line printed to stdout
Line(kind, path, dest, idx, text, err) ==
    [kind |-> kind, path |-> path, dest |-> dest, idx |-> idx, text |-> text, err |-> err]

\* line 59 as a line of stdout
WarningLines(warnings) ==
    [i \in 1..Len(warnings) |-> Line("warning", <<>>, <<>>, warnings[i].idx, warnings[i].text, "")]

(***************************************************************************)
(* The files and directories the program is run on                         *)
(***************************************************************************)
N_in == <<"i", "n">>
N_a == <<"a">>
N_b == <<"b">>
N_out == <<"o", "u", "t">>
N_x_sub == <<"x", ".", "s", "u", "b">>
N_y_sub == <<"y", ".", "s", "u", "b">>
N_o_sub == <<"o", ".", "s", "u", "b">>
N_z_SUB == <<"z", ".", "S", "U", "B">>
N_r_txt == <<"r", ".", "t", "x", "t">>
N_x_srt == <<"x", ".", "s", "r", "t">>
N_nope == <<"n", "o", "p", "e">>

P_in == <<N_in>>
P_a == <<N_in, N_a>>
P_b == <<N_in, N_b>>
P_ax == <<N_in, N_a, N_x_sub>>
P_bx == <<N_in, N_b, N_x_sub>>
P_y == <<N_in, N_y_sub>>
P_o == <<N_in, N_o_sub>>
P_z == <<N_in, N_z_SUB>>
P_r == <<N_in, N_r_txt>>
P_out == <<N_out>>
P_out_x == <<N_out, N_x_srt>>
P_nope == <<N_nope>>

\* '00:00:01,00:00:03\nHello world\n\n00:00:05,00:00:07.250\nSecond line\n'
Good1 ==
    <<"0", "0", ":", "0", "0", ":", "0", "1", ",", "0", "0", ":", "0", "0", ":", "0", "3",
      "\n", "H", "e", "l", "l", "o", " ", "w", "o", "r", "l", "d", "\n", "\n", "0", "0", ":",
      "0", "0", ":", "0", "5", ",", "0", "0", ":", "0", "0", ":", "0", "7", ".", "2", "5",
      "0", "\n", "S", "e", "c", "o", "n", "d", " ", "l", "i", "n", "e", "\n">>


\* '0:0:9.5000000,0:0:11.9\nyo'
Good2 ==
    <<"0", ":", "0", ":", "9", ".", "5", "0", "0", "0", "0", "0", "0", ",", "0", ":", "0",
      ":", "1", "1", ".", "9", "\n", "y", "o">>


\* 'oops\n\n0:1:2,0:1:3.12\nhi'
Skip ==
    <<"o", "o", "p", "s", "\n", "\n", "0", ":", "1", ":", "2", ",", "0", ":", "1", ":", "3",
      ".", "1", "2", "\n", "h", "i">>


\* '0:1:2,0:1:3\nhi\n\n0:1:2\nhi'
BadComma ==
    <<"0", ":", "1", ":", "2", ",", "0", ":", "1", ":", "3", "\n", "h", "i", "\n", "\n", "0",
      ":", "1", ":", "2", "\n", "h", "i">>


\* '0:1,0:1:3\nhi'
BadTime ==
    <<"0", ":", "1", ",", "0", ":", "1", ":", "3", "\n", "h", "i">>

OldText == <<"o", "l", "d">>

Absent == [kind |-> "none", enc |-> "", text |-> <<>>]

PutOpt(fs, path, node) == IF node = Absent THEN fs ELSE Put(fs, path, node)

\* what the three optional inputs of the directory may be
ChoicesAX == {Absent, FileNode("utf-8", Good1), FileNode("utf-8", Skip), FileNode("utf-8", BadComma)}
ChoicesBX == {Absent, FileNode("utf-8", Good2), FileNode("gbk", Good1), FileNode("neither", <<>>)}
ChoicesY == {Absent, DirNode, FileNode("utf-8", BadTime)}

\* the directory in with its two subdirectories, a file with an upper-case
\* extension and a file that is no .sub file
BaseFs ==
    (P_in :> DirNode) @@ (P_a :> DirNode) @@ (P_b :> DirNode)
        @@ (P_z :> FileNode("utf-8", Good2)) @@ (P_r :> FileNode("utf-8", Good1))

\* the output directory given on the command line (<<>> when none is) and what
\* is at that place before the first run
OutOptions == {"none", "new", "old", "blocked", "isfile", "insub"}

OutDirOf(opt) ==
    CASE opt = "none" -> <<>>
      [] opt = "isfile" -> P_r
      [] opt = "insub" -> P_o
      [] OTHER -> P_out

OutFsOf(opt, fs) ==
    CASE opt = "old" -> Put(Put(fs, P_out, DirNode), P_out_x, FileNode("utf-8", OldText))
      [] opt = "blocked" -> Put(Put(fs, P_out, DirNode), P_out_x, DirNode)
      [] OTHER -> fs

\* the orders in which the directory scan may yield the entries named *.sub:
\* the entries of in itself, then those of its subdirectories
ScanOrders == {<<P_y, P_o, P_ax, P_bx>>, <<P_o, P_y, P_bx, P_ax>>}

InputPaths == {P_in, P_ax, P_z, P_r, P_nope}

(***************************************************************************)
(* Generated input files: segments joined by blank-line separators         *)
(***************************************************************************)
SegKinds == {"wf1", "wf2", "single", "bad"}

\* a well-formed block, one with spaces around the comma and two lines of text,
\* a block without a newline, and a block whose time line has no comma
SegText(kind) ==
    CASE kind = "wf1" -> <<"0", ":", "1", ":", "2", ",", "0", ":", "1", ":", "3", ".", "5", "\n", "h", "i">>
      [] kind = "wf2" -> <<"0", "0", ":", "0", "0", ":", "0", "5", " ", ",", " ", "0", "0", ":", "0", "0", ":", "0", "7", ".", "2", "5", "0", "9", "\n", "a", "b", "\n", "c", "d">>
      [] kind = "single" -> <<"0", ":", "1", ":", "2", ",", "0", ":", "1", ":", "3", " ", "h", "i">>
      [] OTHER -> <<"0", ":", "1", ":", "2", "\n", "h", "i">>

SepStyles == {<<"\n", "\n">>, <<"\n", " ", "\t", "\n", "\n">>}

\* the text of a file made of the segments of doc; pad puts a blank line and a
\* space before the first segment and white space after the last
RenderDoc(doc, sep, pad) ==
    (IF pad THEN <<"\n", "\n", " ">> ELSE <<>>)
        \o Join([i \in 1..Len(doc) |-> SegText(doc[i])], sep)
        \o (IF pad THEN <<" ", "\n">> ELSE <<>>)

Docs == UNION {[1..n -> SegKinds] : n \in 0..MaxSegs}

(***************************************************************************)
(* Timestamp tokens handed to format_time_str                              *)
(***************************************************************************)
Digits == {"0", "9"}
DigitStrings(lo, hi) == UNION {[1..n -> Digits] : n \in lo..hi}

\* HH:MM:SS or HH:MM:SS.F; parts.f is <<>> when the token has no fraction
TokenOf(parts) ==
    parts.hh \o <<":">> \o parts.mm \o <<":">> \o parts.ss
        \o (IF parts.f = <<>> THEN <<>> ELSE <<".">> \o parts.f)

WellFormedParts ==
    [hh : DigitStrings(2, 2), mm : DigitStrings(1, 2), ss : DigitStrings(2, 2),
     f : DigitStrings(0, MaxFrac)]

NoParts == [hh |-> <<>>, mm |-> <<>>, ss |-> <<>>, f |-> <<>>]

TokenChars == {"7", "x", ":", "."}
ArbitraryTokens ==
    UNION {[1..n -> TokenChars] : n \in 0..MaxTokLen}
        \cup {<<"0", "0", ":", "0", "0", ":", "1", "1", ".", "5", ".", "2">>, <<"1", ".", "5", ":", "0", "0", ":", "0", "7">>, <<"1", ".", "5", ":", "0", "0", ":", "0", "7", ".", "2", "5">>, <<"a", "b", ":", "c", "d", ":", "e", "f", ".", "g", "h">>}

(***************************************************************************)
(* State                                                                   *)
(***************************************************************************)
VARIABLES
    fs,             \* the filesystem: path -> node, for the paths that exist
    input_path,     \* args.input
    output_dir,     \* args.output, <<>> when not given
    dirOrder,       \* the order in which the directory scan yields entries
    diskFull,       \* the output device has no space left
    pc,             \* where the program is: "idle", "convert", "done", "crashed"
    sub_files,      \* the files the driver converts, in order
    fi,             \* the position of the driver's loop in sub_files
    cpc,            \* where convert_single_sub_to_srt is: "begin", "read", "parse",
                    \* "write", "report", "fail"
    srt_file_path,  \* the destination of the conversion under way
    content,        \* the decoded text of the input
    srt_content,    \* the entries built by the loop over the blocks
    exc,            \* the exception on its way to the handler of line 84
    out,            \* the lines printed so far by the run under way
    run,            \* the number of the run under way
    fsRuns,         \* history: the filesystem before run 1 and after each run
    before,         \* history: the filesystem when the conversion under way began
    doc,            \* the segments the generated input file was made of
    time_str,       \* the argument of the call of format_time_str
    parts,          \* the components time_str was made of, if it was
    ret             \* what the call of format_time_str returned or raised

progVars == <<pc, sub_files, fi, cpc, srt_file_path, content, srt_content, exc, out>>
argVars == <<input_path, output_dir, dirOrder, diskFull>>
fmtVars == <<time_str, parts, ret>>
vars == <<fs, progVars, argVars, run, fsRuns, before, doc, fmtVars>>

IdleProgram ==
    /\ pc = "idle" /\ sub_files = <<>> /\ fi = 0 /\ cpc = "" /\ srt_file_path = <<>>
    /\ content = <<>> /\ srt_content = <<>> /\ exc = "" /\ out = <<>>

NoFormatCall == time_str = <<>> /\ parts = NoParts /\ ret = Raise("")

\* a directory with up to three .sub entries, any input path and output directory
Init ==
    /\ \E ax \in ChoicesAX, bx \in ChoicesBX, y \in ChoicesY, opt \in OutOptions :
          /\ fs = OutFsOf(opt, PutOpt(PutOpt(PutOpt(BaseFs, P_ax, ax), P_bx, bx), P_y, y))
          /\ output_dir = OutDirOf(opt)
    /\ input_path \in InputPaths
    /\ dirOrder \in ScanOrders
    /\ diskFull \in BOOLEAN
    /\ IdleProgram
    /\ run = 1 /\ fsRuns = <<fs>> /\ before = fs
    /\ doc = <<>>
    /\ NoFormatCall

\* one generated .sub file, given as the input path
InitDoc ==
    /\ doc \in Docs
    /\ \E sep \in SepStyles, pad \in BOOLEAN, enc \in {"utf-8", "gbk"} :
          fs = (P_in :> DirNode) @@ (P_a :> DirNode)
                  @@ (P_ax :> FileNode(enc, RenderDoc(doc, sep, pad)))
    /\ input_path = P_ax
    /\ output_dir \in {<<>>, P_out}
    /\ dirOrder \in ScanOrders
    /\ diskFull = FALSE
    /\ IdleProgram
    /\ run = 1 /\ fsRuns = <<fs>> /\ before = fs
    /\ NoFormatCall

\* one call of format_time_str
InitFmt ==
    /\ \/ parts \in WellFormedParts /\ time_str = TokenOf(parts)
       \/ parts = NoParts /\ time_str \in ArbitraryTokens
    /\ ret = Raise("")
    /\ fs = BaseFs /\ input_path = P_in /\ output_dir = <<>>
    /\ dirOrder \in {<<P_y, P_o, P_ax, P_bx>>} /\ diskFull = FALSE
    /\ sub_files = <<>> /\ fi = 0 /\ cpc = "" /\ srt_file_path = <<>>
    /\ content = <<>> /\ srt_content = <<>> /\ exc = "" /\ out = <<>>
    /\ pc = "call"
    /\ run = 1 /\ fsRuns = <<fs>> /\ before = fs
    /\ doc = <<>>

(***************************************************************************)
(* batch_convert_sub_to_srt                                                *)
(***************************************************************************)
\* the run is over: the filesystem it leaves is recorded
Finish(how, fsNow) ==
    /\ pc' = how
    /\ fsRuns' = Append(fsRuns, fsNow)

\* lines 95-97: the input is one .sub file
BatchFile ==
    /\ pc = "idle"
    /\ IsSubFile(fs, input_path)
    /\ sub_files' = <<input_path>>
    /\ fi' = 1
    /\ pc' = "convert"
    /\ cpc' = "begin"
    /\ UNCHANGED <<fs, srt_file_path, content, srt_content, exc, out, argVars, run, fsRuns,
                   before, doc, fmtVars>>

\* lines 99-108: the input is a directory; its .sub entries are listed once,
\* before the first conversion
BatchDir ==
    /\ pc = "idle"
    /\ ~IsSubFile(fs, input_path)
    /\ is_dir(fs, input_path)
    /\ LET found == Glob(fs, input_path, dirOrder)
       IN IF found = <<>>
          THEN /\ out' = Append(out, Line("none found", input_path, <<>>, 0, <<>>, ""))
               /\ Finish("done", fs)
               /\ UNCHANGED <<sub_files, fi, cpc>>
          ELSE /\ out' = Append(out, Line("found", input_path, <<>>, Len(found), <<>>, ""))
               /\ sub_files' = found
               /\ fi' = 1
               /\ pc' = "convert"
               /\ cpc' = "begin"
               /\ UNCHANGED fsRuns
    /\ UNCHANGED <<fs, srt_file_path, content, srt_content, exc, argVars, run, before, doc,
                   fmtVars>>

\* lines 110-111: the input is neither
BatchInvalid ==
    /\ pc = "idle"
    /\ ~IsSubFile(fs, input_path)
    /\ ~is_dir(fs, input_path)
    /\ out' = Append(out, Line("invalid", input_path, <<>>, 0, <<>>, ""))
    /\ Finish("done", fs)
    /\ UNCHANGED <<fs, sub_files, fi, cpc, srt_file_path, content, srt_content, exc, argVars,
                   run, before, doc, fmtVars>>

(***************************************************************************)
(* convert_single_sub_to_srt                                               *)
(***************************************************************************)
\* lines 33-40: the output directory is made when one is given, outside the try
\* block: what makedirs raises leaves the function and, the driver catching
\* nothing, ends the program
ConvBegin ==
    /\ pc = "convert" /\ cpc = "begin"
    /\ before' = fs
    /\ LET made == IF output_dir = <<>> THEN [ok |-> TRUE, fs |-> fs]
                   ELSE makedirs(fs, output_dir)
       IN IF made.ok
          THEN /\ fs' = made.fs
               /\ srt_file_path' = SrtPath(output_dir, sub_files[fi])
               /\ cpc' = "read"
               /\ UNCHANGED <<pc, fsRuns>>
          ELSE /\ Finish("crashed", fs)
               /\ UNCHANGED <<fs, srt_file_path, cpc>>
    /\ UNCHANGED <<sub_files, fi, content, srt_content, exc, out, argVars, run, doc, fmtVars>>

\* lines 44-49
ConvRead ==
    /\ pc = "convert" /\ cpc = "read"
    /\ LET r == ReadText(fs, sub_files[fi])
       IN IF r.ok
          THEN content' = r.val /\ cpc' = "parse" /\ exc' = exc
          ELSE content' = content /\ cpc' = "fail" /\ exc' = r.val[1]
    /\ UNCHANGED <<fs, pc, sub_files, fi, srt_file_path, srt_content, out, argVars, run,
                   fsRuns, before, doc, fmtVars>>

\* lines 52-76: the warnings of the skipped blocks are printed as the loop
\* meets them, also when a later block raises
ConvParse ==
    /\ pc = "convert" /\ cpc = "parse"
    /\ LET r == ParseContent(content)
       IN /\ out' = out \o WarningLines(r.warnings)
          /\ IF r.ok
             THEN srt_content' = r.srt_content /\ cpc' = "write" /\ exc' = exc
             ELSE srt_content' = srt_content /\ cpc' = "fail" /\ exc' = r.err
    /\ UNCHANGED <<fs, pc, sub_files, fi, srt_file_path, content, argVars, run, fsRuns,
                   before, doc, fmtVars>>

\* lines 79-80
ConvWrite ==
    /\ pc = "convert" /\ cpc = "write"
    /\ LET w == WriteFile(fs, srt_file_path, SrtText(srt_content), diskFull)
       IN /\ fs' = w.fs
          /\ IF w.ok THEN cpc' = "report" /\ exc' = exc
             ELSE cpc' = "fail" /\ exc' = w.err
    /\ UNCHANGED <<pc, sub_files, fi, srt_file_path, content, srt_content, out, argVars, run,
                   fsRuns, before, doc, fmtVars>>

\* the call returns: the driver's loop goes to the next file, or the run ends
Return ==
    /\ fi' = fi + 1
    /\ content' = <<>> /\ srt_content' = <<>> /\ exc' = "" /\ srt_file_path' = <<>>
    /\ IF fi < Len(sub_files)
       THEN cpc' = "begin" /\ UNCHANGED <<pc, fsRuns>>
       ELSE cpc' = "" /\ Finish("done", fs)

\* line 82
ConvReport ==
    /\ pc = "convert" /\ cpc = "report"
    /\ out' = Append(out, Line("success", sub_files[fi], srt_file_path, 0, <<>>, ""))
    /\ Return
    /\ UNCHANGED <<fs, sub_files, argVars, run, before, doc, fmtVars>>

\* lines 84-85
ConvFail ==
    /\ pc = "convert" /\ cpc = "fail"
    /\ out' = Append(out, Line("failure", sub_files[fi], <<>>, 0, <<>>, exc))
    /\ Return
    /\ UNCHANGED <<fs, sub_files, argVars, run, before, doc, fmtVars>>

\* lines 113-121: the program is started again with the same arguments
Rerun ==
    /\ pc \in {"done", "crashed"}
    /\ run < MaxRuns
    /\ run' = run + 1
    /\ pc' = "idle" /\ sub_files' = <<>> /\ fi' = 0 /\ cpc' = "" /\ srt_file_path' = <<>>
    /\ content' = <<>> /\ srt_content' = <<>> /\ exc' = "" /\ out' = <<>>
    /\ UNCHANGED <<fs, argVars, fsRuns, before, doc, fmtVars>>

\* lines 6-24, called on its own
FormatCall ==
    /\ pc = "call"
    /\ ret' = format_time_str(time_str)
    /\ pc' = "returned"
    /\ UNCHANGED <<fs, sub_files, fi, cpc, srt_file_path, content, srt_content, exc, out,
                   argVars, run, fsRuns, before, doc, time_str, parts>>

Next ==
    \/ BatchFile
    \/ BatchDir
    \/ BatchInvalid
    \/ ConvBegin
    \/ ConvRead
    \/ ConvParse
    \/ ConvWrite
    \/ ConvReport
    \/ ConvFail
    \/ Rerun

NextDoc ==
    \/ BatchFile
    \/ ConvBegin
    \/ ConvRead
    \/ ConvParse
    \/ ConvWrite
    \/ ConvReport
    \/ ConvFail

NextFmt == FormatCall

\* the program run up to MaxRuns times on a directory tree
Spec == Init /\ [][Next]_vars

\* the program run once on one generated file
SpecDoc == InitDoc /\ [][NextDoc]_vars

\* format_time_str on its own
SpecFmt == InitFmt /\ [][NextFmt]_vars

(***************************************************************************)
(* Expected values, written out by hand                                    *)
(***************************************************************************)
\* '1\n00:00:01,000 --> 00:00:03,000\nHello world\n\n2\n00:00:05,000 --> 00:00:07,250\nSecond line\n'
SrtGood1 ==
    <<"1", "\n", "0", "0", ":", "0", "0", ":", "0", "1", ",", "0", "0", "0", " ", "-", "-",
      ">", " ", "0", "0", ":", "0", "0", ":", "0", "3", ",", "0", "0", "0", "\n", "H", "e",
      "l", "l", "o", " ", "w", "o", "r", "l", "d", "\n", "\n", "2", "\n", "0", "0", ":", "0",
      "0", ":", "0", "5", ",", "0", "0", "0", " ", "-", "-", ">", " ", "0", "0", ":", "0",
      "0", ":", "0", "7", ",", "2", "5", "0", "\n", "S", "e", "c", "o", "n", "d", " ", "l",
      "i", "n", "e", "\n">>


\* '1\n0:0:9,500 --> 0:0:11,900\nyo\n'
SrtGood2 ==
    <<"1", "\n", "0", ":", "0", ":", "9", ",", "5", "0", "0", " ", "-", "-", ">", " ", "0",
      ":", "0", ":", "1", "1", ",", "9", "0", "0", "\n", "y", "o", "\n">>


\* '2\n0:1:2,000 --> 0:1:3,120\nhi\n'
SrtSkip ==
    <<"2", "\n", "0", ":", "1", ":", "2", ",", "0", "0", "0", " ", "-", "-", ">", " ", "0",
      ":", "1", ":", "3", ",", "1", "2", "0", "\n", "h", "i", "\n">>

\* the conversion of a sample file
ExpectedSrtOf(text) ==
    CASE text = Good1 -> SrtGood1
      [] text = Good2 -> SrtGood2
      [] text = Skip -> SrtSkip
      [] OTHER -> <<"?">>

IndexText(i) == <<<<"1", "2", "3", "4", "5", "6", "7", "8", "9">>[i]>>

\* the entry of a well-formed segment of a generated file that stands at position i
ExpectedEntry(kind, i) ==
    IF kind = "wf1" THEN IndexText(i) \o <<"\n", "0", ":", "1", ":", "2", ",", "0", "0", "0", " ", "-", "-", ">", " ", "0", ":", "1", ":", "3", ",", "5", "0", "0", "\n", "h", "i", "\n">>
    ELSE IndexText(i) \o <<"\n", "0", "0", ":", "0", "0", ":", "0", "5", ",", "0", "0", "0", " ", "-", "-", ">", " ", "0", "0", ":", "0", "0", ":", "0", "7", ",", "2", "5", "0", "\n", "a", "b", "\n", "c", "d", "\n">>

IsWellFormedSeg(kind) == kind \in {"wf1", "wf2"}

\* the output of a generated file: the entries of its well-formed segments, each
\* numbered by the position of its segment, with one empty line between entries
RECURSIVE ExpectedFrom(_, _)
ExpectedFrom(d, i) ==
    IF i > Len(d) THEN <<>>
    ELSE IF ~IsWellFormedSeg(d[i]) THEN ExpectedFrom(d, i + 1)
    ELSE LET rest == ExpectedFrom(d, i + 1)
         IN ExpectedEntry(d[i], i) \o (IF rest = <<>> THEN <<>> ELSE <<NL>> \o rest)

ExpectedSrt(d) == ExpectedFrom(d, 1)

\* the warnings of a generated file: one for each segment without a newline
RECURSIVE ExpectedWarnings(_, _)
ExpectedWarnings(d, i) ==
    IF i > Len(d) THEN <<>>
    ELSE IF d[i] # "single" THEN ExpectedWarnings(d, i + 1)
    ELSE <<Line("warning", <<>>, <<>>, i, SegText("single"), "")>> \o ExpectedWarnings(d, i + 1)

\* the success and failure lines among the lines printed
Reports(lines) == SelectSeq(lines, LAMBDA l : l.kind \in {"success", "failure"})

Colons(t) == {i \in 1..Len(t) : t[i] = ":"}
Dots(t) == {i \in 1..Len(t) : t[i] = "."}
SecondsDots(t) == {i \in Dots(t) : \A c \in Colons(t) : c < i}

(***************************************************************************)
(* Claims                                                                  *)
(***************************************************************************)

\* C1: for a token HH:MM:SS or HH:MM:SS.F of digits, format_time_str returns
\* hh:mm:ss,mmm with hh, mm, ss verbatim and mmm the first three digits of F,
\* padded on the right with "0" to three characters, and 000 without F.
C1_FormatWellFormed ==
    (pc = "returned" /\ parts # NoParts) =>
        ret = Ok(parts.hh \o <<":">> \o parts.mm \o <<":">> \o parts.ss \o <<",">>
                   \o [i \in 1..3 |-> IF i <= Len(parts.f) THEN parts.f[i] ELSE "0"])

C1_Witness ==
    /\ pc = "returned"
    /\ parts.f = <<"0", "9", "9", "9">>
    /\ ret.ok
    /\ SubSeq(ret.val, Len(ret.val) - 3, Len(ret.val)) = <<",", "0", "9", "9">>

\* C9 as stated: every token that splits on ":" into exactly three parts is
\* formatted without error.
C9_ThreePartsNeverFail ==
    (pc = "returned" /\ Cardinality(Colons(time_str)) = 2) => ret.ok

\* C9 amended: format_time_str returns iff the token has exactly two ":" and
\* either no "." at all or exactly one "." after the second ":"; what it then
\* returns is the token up to that "." verbatim, a "," and three characters.
C9_FailsIffNotTriadAndFraction ==
    pc = "returned" =>
        /\ ret.ok <=> /\ Cardinality(Colons(time_str)) = 2
                      /\ Dots(time_str) = {} \/ Cardinality(SecondsDots(time_str)) = 1
        /\ ret.ok =>
             LET d == IF Dots(time_str) = {} THEN Len(time_str) + 1
                      ELSE CHOOSE i \in SecondsDots(time_str) : TRUE
             IN /\ Len(ret.val) = d + 3
                /\ SubSeq(ret.val, 1, d - 1) = SubSeq(time_str, 1, d - 1)
                /\ ret.val[d] = ","

C9_Witness ==
    /\ pc = "returned"
    /\ time_str = <<"a", "b", ":", "c", "d", ":", "e", "f", ".", "g", "h">>
    /\ ret = Ok(<<"a", "b", ":", "c", "d", ":", "e", "f", ",", "g", "h", "0">>)

\* C2: when a file converts successfully, its output holds the entries of its
\* well-formed blocks in input order, each numbered by the 1-based position of
\* its block among all non-empty segments, so that a skipped block leaves a gap.
C2_OrderAndPositionIndex ==
    (pc = "done" /\ \E i \in 1..Len(out) : out[i].kind = "success") =>
        /\ is_file(fs, SrtPath(output_dir, input_path))
        /\ fs[SrtPath(output_dir, input_path)].text = ExpectedSrt(doc)

C2_Witness ==
    /\ pc = "done"
    /\ doc = <<"wf1", "single", "wf2">>
    /\ \E i \in 1..Len(out) : out[i].kind = "success"
    /\ fs[SrtPath(output_dir, input_path)].text =
           ExpectedEntry("wf1", 1) \o <<NL>> \o ExpectedEntry("wf2", 3)

\* C3: a file whose blocks are well-formed or single-line never fails: each
\* single-line block is dropped with one warning naming its position, the other
\* blocks are converted, the output is written and one success line is printed.
C3_SkipNeverFails ==
    (pc = "done" /\ \A i \in 1..Len(doc) : doc[i] # "bad") =>
        /\ out = ExpectedWarnings(doc, 1)
                   \o <<Line("success", input_path, SrtPath(output_dir, input_path), 0, <<>>, "")>>
        /\ is_file(fs, SrtPath(output_dir, input_path))
        /\ fs[SrtPath(output_dir, input_path)].text = ExpectedSrt(doc)

C3_Witness ==
    /\ pc = "done"
    /\ doc = <<"single", "wf1", "single">>
    /\ Len(out) = 3 /\ out[1].idx = 1 /\ out[2].idx = 3 /\ out[3].kind = "success"
    /\ fs[SrtPath(output_dir, input_path)].text = ExpectedEntry("wf1", 2)

\* C4 as stated: when a conversion fails, the destination is what it was before
\* the conversion began (no file is created, none is truncated), and no success
\* line has been printed for the file.
C4_FailureLeavesDestination ==
    (pc = "convert" /\ cpc = "fail") =>
        /\ IF srt_file_path \in DOMAIN before
           THEN srt_file_path \in DOMAIN fs /\ fs[srt_file_path] = before[srt_file_path]
           ELSE srt_file_path \notin DOMAIN fs
        /\ Len(Reports(out)) = fi - 1

\* C5 as stated: no call of convert_single_sub_to_srt raises.
C5_NeverRaises == pc # "crashed"

\* C6 as stated: in a directory batch every enumerated file gets exactly one
\* success-or-failure line, in the order of the enumeration, and a conversion
\* begins only when the ones before it have been reported.
C6_EveryFileReported ==
    /\ (pc \in {"done", "crashed"} /\ is_dir(fs, input_path)) =>
          LET r == Reports(out)
          IN Len(r) = Len(sub_files) /\ \A i \in 1..Len(r) : r[i].path = sub_files[i]
    /\ pc = "convert" => Len(Reports(out)) = fi - 1

\* C7: a second run on the same input leaves the files and their content as
\* the first run left them, and no run takes a .srt file as an input.
C7_SecondRunChangesNothing ==
    /\ \A k \in 2..(Len(fsRuns) - 1) : fsRuns[k + 1] = fsRuns[k]
    /\ \A i \in 1..Len(sub_files) : Lower(Suffix(sub_files[i])) # DotSrt

C7_Witness ==
    /\ Len(fsRuns) = 3
    /\ input_path = P_in
    /\ fsRuns[1] # fsRuns[2]
    /\ is_file(fsRuns[1], P_out_x) /\ fsRuns[1][P_out_x].text = OldText
    /\ is_file(fs, P_out_x) /\ fs[P_out_x].text = SrtGood2

\* C8: for an input path that is neither a directory nor a file with the
\* extension .sub in any case, the program prints the invalid-path line and
\* nothing else, converts nothing and leaves the filesystem as it was.
C8_InvalidPathChangesNothing ==
    (~is_dir(fsRuns[1], input_path)
        /\ ~(is_file(fsRuns[1], input_path) /\ Lower(Suffix(input_path)) = DotSub)) =>
        /\ fs = fsRuns[1]
        /\ pc \in {"idle", "done"}
        /\ sub_files = <<>>
        /\ pc = "done" => out = <<Line("invalid", input_path, <<>>, 0, <<>>, "")>>

C8_Witness ==
    /\ pc = "done"
    /\ input_path = P_r
    /\ output_dir = P_out
    /\ P_out \notin DOMAIN fs
    /\ out = <<Line("invalid", P_r, <<>>, 0, <<>>, "")>>

\* C10: in a directory batch with an output directory, two enumerated files
\* with the same stem write the same destination; both are reported as
\* successes when both convert, one .srt file exists for the stem, and it
\* holds the conversion of the one processed later.
C10_SameStemLaterWins ==
    (pc = "done" /\ output_dir # <<>> /\ is_dir(fs, input_path)) =>
        \A i, j \in 1..Len(sub_files) :
            (i < j /\ {sub_files[i], sub_files[j]} = {P_ax, P_bx}) =>
                LET r == Reports(out)
                    dest == output_dir \o <<N_x_srt>>
                    convertible(q) == is_file(fs, q) /\ fs[q].text \in {Good1, Good2, Skip}
                    inDir == {q \in DOMAIN fs : /\ Parent(q) = output_dir
                                                /\ Stem(q) = Stem(P_ax)
                                                /\ Suffix(q) = DotSrt}
                IN /\ \A k \in {i, j} : r[k].kind = "success" => r[k].dest = dest
                   /\ (convertible(P_ax) /\ convertible(P_bx) /\ ~diskFull /\ ~is_dir(fs, dest))
                         => r[i].kind = "success" /\ r[j].kind = "success"
                   /\ r[j].kind = "success" =>
                         /\ is_file(fs, dest)
                         /\ fs[dest].text = ExpectedSrtOf(fs[sub_files[j]].text)
                         /\ inDir = {dest}

C10_Witness ==
    /\ pc = "done" /\ run = 1
    /\ output_dir = P_out
    /\ sub_files = <<P_ax, P_bx>>
    /\ fs[P_ax].text = Good1 /\ fs[P_bx].text = Good2
    /\ Len(out) = 3 /\ out[2].kind = "success" /\ out[3].kind = "success"
    /\ out[2].dest = out[3].dest
    /\ fs[P_out_x].text = SrtGood2
    /\ {q \in DOMAIN fs : Parent(q) = P_out} = {P_out_x}

====
